---- MODULE Spec2Model ----
(***************************************************************************)
(* Model of src/main.go (the later of the two versions in the file, lines  *)
(* 151-339): a sequential CLI that creates a temporary directory, clones a *)
(* repository into it, finds and parses go.mod, lists the dependencies and *)
(* prints those that can be updated.                                       *)
(*                                                                         *)
(* Strings that the code inspects character by character (import paths and *)
(* directory paths) are sequences of one-character strings.                *)
(***************************************************************************)
EXTENDS Integers, Sequences, FiniteSets, TLC

\* ---------------------------------------------------------------- bounds
MaxNodes == 4      \* nodes of a directory tree handed to findGoMod
MaxLines == 2      \* lines of a go.mod file
MaxRecords == 2    \* JSON values in the output of `go list`
MaxRuns == 2       \* consecutive runs of the tool on one machine
MaxArgs == 2       \* len(os.Args) is drawn from 1..MaxArgs

\* ------------------------------------------------------ program constants
RemoveAttempts == 3          \* for i := 0; i < 3; i++

GOOS == {"windows", "linux"}

\* ------------------------------------------------------------ string helpers
\* strings.HasPrefix
HasPrefix(s, prefix) ==
    /\ Len(s) >= Len(prefix)
    /\ SubSeq(s, 1, Len(prefix)) = prefix

\* strings.Contains
Contains(s, substr) ==
    \E k \in 0..(Len(s) - Len(substr)) : SubSeq(s, k + 1, k + Len(substr)) = substr

\* filepath.ToSlash: replaces the OS separator by '/'; the separator is '\'
\* on windows and '/' (so nothing changes) elsewhere.
ToSlash(os, p) ==
    [k \in 1..Len(p) |-> IF os = "windows" /\ p[k] = "\\" THEN "/" ELSE p[k]]

Digits == <<"1", "2", "3", "4", "5", "6", "7", "8", "9">>

\* The path of temporary directory number id: id 0 is the fixed directory
\* filepath.Join(os.TempDir(), "go-dep-analysis") of the windows branch,
\* id >= 1 the directory with a unique suffix that os.MkdirTemp creates.
DirPath(os, id) ==
    IF os = "windows"
    THEN <<"C", ":", "\\", "t", "\\", "w">>
    ELSE <<"/", "t", "/", "w", Digits[id]>>

\* ------------------------------------------------------------ directory trees
\* A directory tree is the sequence of its nodes in the order filepath.Walk
\* visits them when nothing is skipped (pre-order, each directory's entries in
\* lexical order).  A node carries its depth below the root, what the walk
\* callback is told about it (info.Name(), info.IsDir()) and whether reaching it
\* fails: err on a directory is a failure to list it (it then has no entries to
\* visit), err on a non-directory is a failed lstat.  The path of a node is
\* its index; path 0 is the empty string.
Names == {"go.mod", "other"}    \* "other": any name that is not go.mod

Nodes ==
    [depth : 1..(MaxNodes - 1), name : Names, isDir : BOOLEAN, err : BOOLEAN]

Roots ==
    [depth : {0}, name : {"other"}, isDir : {TRUE}, err : BOOLEAN]
      \cup [depth : {0}, name : {"other"}, isDir : {FALSE}, err : {TRUE}]

\* an entry called go.mod is already listed in the directory that a further
\* node of depth d would be listed in
NameTaken(t, d) ==
    \E j \in 1..Len(t) :
        /\ t[j].name = "go.mod"
        /\ t[j].depth = d
        /\ \A k \in (j + 1)..Len(t) : t[k].depth >= d

CanAppend(t, n) ==
    /\ n.depth <= t[Len(t)].depth + 1
    /\ n.depth = t[Len(t)].depth + 1 => (t[Len(t)].isDir /\ ~t[Len(t)].err)
    /\ n.name = "go.mod" => ~NameTaken(t, n.depth)

RECURSIVE TreesOfSize(_)
TreesOfSize(n) ==
    IF n = 1
    THEN {<<r>> : r \in Roots}
    ELSE {Append(x[1], x[2]) :
            x \in {y \in TreesOfSize(n - 1) \X Nodes : CanAppend(y[1], y[2])}}

Trees == UNION {TreesOfSize(n) : n \in 1..MaxNodes}

\* ------------------------------------------------------------ findGoMod
\* The callback passed to filepath.Walk (lines 257-266): its return value and
\* the captured variable goModPath after the call.
walkFn(path, info, goModPath) ==
    IF info.err
    THEN [ret |-> "err", goModPath |-> goModPath]
    ELSE IF ~info.isDir /\ info.name = "go.mod"
    THEN [ret |-> "SkipDir", goModPath |-> path]
    ELSE [ret |-> "nil", goModPath |-> goModPath]

\* filepath.Walk on SkipDir returned for a non-directory: the remaining
\* entries of the containing directory are skipped, that is every following
\* node that is not shallower than the file.
SkipRest(t, i) ==
    IF \E j \in (i + 1)..Len(t) : t[j].depth < t[i].depth
    THEN CHOOSE j \in (i + 1)..Len(t) :
            /\ t[j].depth < t[i].depth
            /\ \A k \in (i + 1)..(j - 1) : t[k].depth >= t[i].depth
    ELSE Len(t) + 1

\* filepath.Walk driving walkFn from node i on: an error returned by the
\* callback stops the walk and is Walk's result; SkipDir is consumed by Walk.
RECURSIVE Walk(_, _, _)
Walk(t, i, goModPath) ==
    IF i > Len(t)
    THEN [goModPath |-> goModPath, err |-> "nil"]
    ELSE LET r == walkFn(i, t[i], goModPath)
         IN  IF r.ret = "err"
             THEN [goModPath |-> r.goModPath, err |-> "WalkError"]
             ELSE IF r.ret = "SkipDir"
             THEN Walk(t, SkipRest(t, i), r.goModPath)
             ELSE Walk(t, i + 1, r.goModPath)

findGoMod(dir) ==
    LET w == Walk(dir, 1, 0)
    IN  IF w.goModPath = 0
        THEN [path |-> 0, err |-> "ManifestNotFoundError"]
        ELSE [path |-> w.goModPath, err |-> w.err]

\* ------------------------------------------------------------ parseGoMod
\* The bytes of a go.mod file: a sequence of lines, each a directive with its
\* argument and the line terminator that follows it.
LineTexts ==
    { <<"module", "example.com/foo">>, <<"module", "example.com/bar">>,
      <<"go", "1.21">>, <<"go", "1.x">>,
      <<"require", "example.com/dep v1.0.0">>, <<"bogus", "x">> }

Lines == [directive : {x[1] : x \in LineTexts}, arg : {x[2] : x \in LineTexts},
          eol : {"\n", "\r\n"}]

ManifestLines == {l \in Lines : <<l.directive, l.arg>> \in LineTexts}

Manifests == UNION {[1..n -> ManifestLines] : n \in 0..MaxLines}

\* what os.ReadFile(goModPath) yields
GoModFiles == [readable : BOOLEAN, data : Manifests]

\* strings.ReplaceAll(string(data), "\r\n", "\n")
ReplaceCRLF(data) ==
    [k \in 1..Len(data) |->
        [data[k] EXCEPT !.eol = IF @ = "\r\n" THEN "\n" ELSE @]]

DirectiveArgs(data, d) ==
    SelectSeq([k \in 1..Len(data) |-> IF data[k].directive = d
                                      THEN <<data[k].arg>> ELSE <<>>],
              LAMBDA a : a # <<>>)

\* modfile.Parse(goModPath, data, nil), the strict parser of the library:
\* it rejects an unknown directive, a second module or go statement and a go
\* version that is not of the form 1.23; a carriage return is white space to
\* its lexer.  Module and Go are nil when the statement is absent.
modfileParse(data) ==
    LET mods == DirectiveArgs(data, "module")
        gos  == DirectiveArgs(data, "go")
    IN  IF \/ \E k \in 1..Len(data) : data[k].directive = "bogus"
           \/ Len(mods) > 1
           \/ Len(gos) > 1
           \/ \E k \in 1..Len(gos) : gos[k][1] = "1.x"
        THEN [err |-> "ManifestParseError", Module |-> "nil", Go |-> "nil"]
        ELSE [err |-> "nil",
              Module |-> IF mods = <<>> THEN "nil" ELSE mods[1][1],
              Go |-> IF gos = <<>> THEN "nil" ELSE gos[1][1]]

\* the earlier parseGoMod (lines 94-109) reads modFile.Go.Version without the
\* nil check: a manifest without a go directive is a nil dereference
parseGoModNoNilCheck(file) ==
    IF ~file.readable
    THEN [modulePath |-> "", goVersion |-> "", err |-> "ReadError"]
    ELSE LET modFile == modfileParse(ReplaceCRLF(file.data))
         IN  IF modFile.err # "nil"
             THEN [modulePath |-> "", goVersion |-> "", err |-> "ManifestParseError"]
             ELSE IF modFile.Module = "nil"
             THEN [modulePath |-> "", goVersion |-> "",
                   err |-> "MissingModuleDeclarationError"]
             ELSE IF modFile.Go = "nil"
             THEN [modulePath |-> "", goVersion |-> "", err |-> "panic"]
             ELSE [modulePath |-> modFile.Module, goVersion |-> modFile.Go,
                   err |-> "nil"]

parseGoMod(file) ==
    IF ~file.readable
    THEN [modulePath |-> "", goVersion |-> "", err |-> "ReadError"]
    ELSE LET modFile == modfileParse(ReplaceCRLF(file.data))
         IN  IF modFile.err # "nil"
             THEN [modulePath |-> "", goVersion |-> "", err |-> "ManifestParseError"]
             ELSE IF modFile.Module = "nil"
             THEN [modulePath |-> "", goVersion |-> "",
                   err |-> "MissingModuleDeclarationError"]
             ELSE [modulePath |-> modFile.Module,
                   goVersion |-> IF modFile.Go # "nil" THEN modFile.Go ELSE "unknown",
                   err |-> "nil"]

\* ------------------------------------------------------------ getDependencies
\* One JSON value of the output of `go list -m -u -json all`: a ModuleInfo
\* (Update is the version of the update, "nil" when the field is absent), or
\* a value json.Decoder cannot decode (bad).
ImportPaths ==
    { <<"x", "/", "b">>,                              \* x/b
      <<".", "/", "b">>,                              \* ./b
      <<"/", "b">>,                                   \* /b
      <<"\\", "b">>,                                  \* \b
      <<"C", ":", "\\", "t", "\\", "w", "\\", "m">>,   \* C:\t\w\m
      <<"x", "/", "t", "/", "w", "1">> }              \* x/t/w1

ModuleInfo ==
    [Path : ImportPaths, Version : {"v1.0.0"}, Update : {"nil", "v1.2.0"},
     bad : {FALSE}]

Undecodable == [Path |-> <<>>, Version |-> "", Update |-> "nil", bad |-> TRUE]

JSONValues == ModuleInfo \cup {Undecodable}

Streams == UNION {[1..n -> JSONValues] : n \in 0..MaxRecords}

\* the go command as getDependencies meets it: whether exec.LookPath finds
\* it, whether cmd.Run succeeds, and what it wrote to the buffer out
GoCommands == [found : BOOLEAN, ran : BOOLEAN, out : Streams]

\* the condition of line 319
Keep(os, dir, m) ==
    LET normalizedPath == ToSlash(os, m.Path)
        normalizedDir  == ToSlash(os, dir)
    IN  /\ ~HasPrefix(normalizedPath, <<".">>)
        /\ ~HasPrefix(normalizedPath, <<"/">>)
        /\ ~Contains(normalizedPath, normalizedDir)

\* the decoding loop of lines 309-323 from value k on
RECURSIVE decodeLoop(_, _, _, _, _)
decodeLoop(os, dir, out, k, deps) ==
    IF k > Len(out)
    THEN [deps |-> deps, err |-> "nil"]
    ELSE IF out[k].bad
    THEN [deps |-> <<>>, err |-> "DecodeError"]
    ELSE decodeLoop(os, dir, out, k + 1,
                    IF Keep(os, dir, out[k]) THEN Append(deps, out[k]) ELSE deps)

getDependencies(os, dir, go) ==
    IF ~go.found
    THEN [deps |-> <<>>, err |-> "ToolNotFoundError"]
    ELSE IF ~go.ran
    THEN [deps |-> <<>>, err |-> "ListingError"]
    ELSE decodeLoop(os, dir, go.out, 1, <<>>)

\* ------------------------------------------------------------ printResults
\* A line written to standard output.
Line(kind, text, path, from, to) ==
    [kind |-> kind, text |-> text, path |-> path, from |-> from, to |-> to]

UsageLine == Line("Usage", "go run main.go <git-repo-url>", <<>>, "", "")
HeaderLine == Line("Header", "Dependencies that can be updated:", <<>>, "", "")
UpToDateLine == Line("UpToDate", "All dependencies are up to date.", <<>>, "", "")
DepLine(dep) == Line("Dep", "", dep.Path, dep.Version, dep.Update)

\* the loop of lines 331-335 from element k on
RECURSIVE depLines(_, _)
depLines(deps, k) ==
    IF k > Len(deps)
    THEN <<>>
    ELSE (IF deps[k].Update # "nil" THEN <<DepLine(deps[k])>> ELSE <<>>)
            \o depLines(deps, k + 1)

printResults(moduleName, goVersion, deps) ==
    << Line("Module", moduleName, <<>>, "", ""),
       Line("GoVersion", goVersion, <<>>, "", "") >>
      \o (IF Len(deps) > 0
          THEN <<HeaderLine>> \o depLines(deps, 1)
          ELSE <<UpToDateLine>>)

\* ------------------------------------------------------------ state
VARIABLES
    pc,          \* position of main: "main", "acquire", "fetch", "locate",
                 \* "parse", "report", "render", "cleanup", "exited"
    goos,        \* runtime.GOOS of the machine
    argc,        \* len(os.Args) of the current run
    runs,        \* number of the current run on this machine
    fs,          \* temporary directory id -> "absent", "empty" or "cloned"
    tempDir,     \* main's tempDir (a directory id), NoDir before createTempDir
    acqPrior,    \* what fs held for tempDir just before createTempDir
    err,         \* main's err after the last call
    goModPath,   \* main's goMopPath
    moduleName,  \* main's moduleName
    goVersion,   \* main's goVersion
    deps,        \* main's deps
    stdout,      \* lines written to standard output in this run
    exitCode,    \* exit status of the run, Running before it ends
    stages,      \* the calls main has made in this run, in order
    fatal,       \* the call whose failure main reported with log.Fatalf
    cmds,        \* external commands executed in this run, in order
    i,           \* loop variable of cleanupTempDir
    removeLog,   \* outcome of each os.RemoveAll of this run's cleanupTempDir
    repoTree,    \* the tree findGoMod walks, <<>> while not determined
    goModFile,   \* <<what os.ReadFile yields>>, <<>> while not determined
    goCommand    \* <<behaviour of the go command>>, <<>> while not determined

vars == << pc, goos, argc, runs, fs, tempDir, acqPrior, err, goModPath,
           moduleName, goVersion, deps, stdout, exitCode, stages, fatal, cmds,
           i, removeLog, repoTree, goModFile, goCommand >>

environment == << repoTree, goModFile, goCommand >>

NoDir == 0 - 1
Running == 0 - 1
DirIds == 0..MaxRuns

\* ------------------------------------------------------------ main
\* len(os.Args) < 2 with the off-by-one a slip would give
argsMissingOffByOne(n) == n < 1

\* line 177
argsMissing(n) == n < 2

Successor(stage) ==
    CASE stage = "acquire" -> "fetch"
      [] stage = "fetch"   -> "locate"
      [] stage = "locate"  -> "parse"
      [] stage = "parse"   -> "report"
      [] stage = "report"  -> "render"
      [] stage = "render"  -> "cleanup"

\* main that carries on after a failed findGoMod
mainAfterIgnoringLocate(stage, e) ==
    IF e # "nil" /\ stage # "locate" THEN "exited" ELSE Successor(stage)

\* Where main is after the call of a stage returned e: every `if err != nil`
\* of lines 183-210 ends in log.Fatalf, which exits the process at once
\* (os.Exit(1): deferred functions do not run); otherwise the next call.
\* After printResults main returns and the deferred function runs.
mainAfter(stage, e) ==
    IF e # "nil" THEN "exited" ELSE Successor(stage)

\* the effect on pc, err, exitCode, fatal and stages that every call has
Called(stage, e) ==
    /\ stages' = Append(stages, stage)
    /\ err' = e
    /\ pc' = mainAfter(stage, e)
    /\ fatal' = IF e # "nil" THEN stage ELSE fatal
    /\ exitCode' = IF e # "nil" THEN 1 ELSE exitCode

Init ==
    /\ pc = "main"
    /\ goos \in GOOS
    /\ argc \in 1..MaxArgs
    /\ runs = 1
    /\ fs = [d \in DirIds |-> "absent"]
    /\ tempDir = NoDir
    /\ acqPrior = "none"
    /\ err = "nil"
    /\ goModPath = 0
    /\ moduleName = ""
    /\ goVersion = ""
    /\ deps = <<>>
    /\ stdout = <<>>
    /\ exitCode = Running
    /\ stages = <<>>
    /\ fatal = "none"
    /\ cmds = <<>>
    /\ i = 0
    /\ removeLog = <<>>
    /\ repoTree = <<>>
    /\ goModFile = <<>>
    /\ goCommand = <<>>

\* lines 177-182
Main ==
    /\ pc = "main"
    /\ IF argsMissing(argc)
       THEN /\ stdout' = Append(stdout, UsageLine)
            /\ exitCode' = 1
            /\ pc' = "exited"
       ELSE /\ pc' = "acquire"
            /\ UNCHANGED << stdout, exitCode >>
    /\ UNCHANGED << goos, argc, runs, fs, tempDir, acqPrior, err, goModPath,
                    moduleName, goVersion, deps, stages, fatal, cmds, i,
                    removeLog, environment >>

\* createTempDir (lines 215-224); made tells whether the os call succeeds.
\* os.MkdirAll succeeds on a directory that exists and leaves it as it is;
\* os.MkdirTemp creates a directory with a name not in use.
createTempDir(os, fsv, run, made) ==
    IF os = "windows"
    THEN IF made
         THEN [dir |-> 0, err |-> "nil",
               fs |-> [fsv EXCEPT ![0] = IF @ = "absent" THEN "empty" ELSE @]]
         ELSE [dir |-> NoDir, err |-> "WorkspaceError", fs |-> fsv]
    ELSE IF made
         THEN [dir |-> run, err |-> "nil", fs |-> [fsv EXCEPT ![run] = "empty"]]
         ELSE [dir |-> NoDir, err |-> "WorkspaceError", fs |-> fsv]

\* lines 183-191
Acquire ==
    /\ pc = "acquire"
    /\ \E made \in BOOLEAN :
         LET r == createTempDir(goos, fs, runs, made)
         IN  /\ tempDir' = r.dir
             /\ fs' = r.fs
             /\ acqPrior' = IF r.err = "nil" THEN fs[r.dir] ELSE acqPrior
             /\ Called("acquire", r.err)
    /\ UNCHANGED << goos, argc, runs, goModPath, moduleName, goVersion, deps,
                    stdout, cmds, i, removeLog, environment >>

\* cloneRepo (lines 239-252); cloned tells whether git exits with 0, which
\* it does not when the destination exists and is not empty.
Fetch ==
    /\ pc = "fetch"
    /\ \E cloned \in {b \in BOOLEAN : b => fs[tempDir] = "empty"} :
         /\ fs' = IF cloned THEN [fs EXCEPT ![tempDir] = "cloned"] ELSE fs
         /\ Called("fetch", IF cloned THEN "nil" ELSE "FetchError")
    /\ cmds' = Append(cmds, "git")
    /\ UNCHANGED << goos, argc, runs, tempDir, acqPrior, goModPath, moduleName,
                    goVersion, deps, stdout, i, removeLog, environment >>

\* lines 197-200
Locate ==
    /\ pc = "locate"
    /\ \E t \in (IF repoTree = <<>> THEN Trees ELSE {repoTree}) :
         LET r == findGoMod(t)
         IN  /\ goModPath' = r.path
             /\ Called("locate", r.err)
    /\ UNCHANGED << goos, argc, runs, fs, tempDir, acqPrior, moduleName,
                    goVersion, deps, stdout, cmds, i, removeLog, environment >>

\* lines 202-205
Parse ==
    /\ pc = "parse"
    /\ \E f \in (IF goModFile = <<>> THEN GoModFiles ELSE {goModFile[1]}) :
         LET r == parseGoMod(f)
         IN  /\ moduleName' = r.modulePath
             /\ goVersion' = r.goVersion
             /\ Called("parse", r.err)
    /\ UNCHANGED << goos, argc, runs, fs, tempDir, acqPrior, goModPath, deps,
                    stdout, cmds, i, removeLog, environment >>

\* lines 207-210
Report ==
    /\ pc = "report"
    /\ \E g \in (IF goCommand = <<>> THEN GoCommands ELSE {goCommand[1]}) :
         LET r == getDependencies(goos, DirPath(goos, tempDir), g)
         IN  /\ deps' = r.deps
             /\ cmds' = IF g.found THEN Append(cmds, "go") ELSE cmds
             /\ Called("report", r.err)
    /\ UNCHANGED << goos, argc, runs, fs, tempDir, acqPrior, goModPath,
                    moduleName, goVersion, stdout, i, removeLog, environment >>

\* lines 212-213: printResults, then main returns and the deferred call of
\* cleanupTempDir starts
Render ==
    /\ pc = "render"
    /\ stdout' = stdout \o printResults(moduleName, goVersion, deps)
    /\ Called("render", "nil")
    /\ i' = 0
    /\ UNCHANGED << goos, argc, runs, fs, tempDir, acqPrior, goModPath,
                    moduleName, goVersion, deps, cmds, removeLog, environment >>

\* ------------------------------------------------------------ cleanupTempDir
\* the loop condition with one attempt too many
loopCondOffByOne(iv) == iv <= RemoveAttempts

\* line 228: i < 3
loopCond(iv) == iv < RemoveAttempts

\* what the deferred function of lines 187-191 does with cleanupTempDir's
\* result e: log.Fatalf on an error, else main is over and the exit status 0
Deferred(e) ==
    /\ pc' = "exited"
    /\ err' = e
    /\ fatal' = IF e # "nil" THEN "release" ELSE fatal
    /\ exitCode' = IF e # "nil" THEN 1 ELSE 0

\* One step of cleanupTempDir (lines 226-237): on windows one turn of the
\* loop (an os.RemoveAll and, if it failed, the sleep) or the return after
\* the loop; elsewhere the single os.RemoveAll.  removed is its outcome.
Cleanup ==
    /\ pc = "cleanup"
    /\ stages' = IF removeLog = <<>> /\ i = 0 THEN Append(stages, "release")
                 ELSE stages
    /\ IF goos = "windows" /\ ~loopCond(i)
       THEN /\ Deferred("WorkspaceError")
            /\ UNCHANGED << fs, i, removeLog >>
       ELSE \E removed \in BOOLEAN :
              /\ removeLog' = Append(removeLog, removed)
              /\ fs' = IF removed THEN [fs EXCEPT ![tempDir] = "absent"] ELSE fs
              /\ IF removed
                 THEN Deferred("nil") /\ UNCHANGED i
                 ELSE IF goos = "windows"
                 THEN /\ i' = i + 1
                      /\ UNCHANGED << pc, err, fatal, exitCode >>
                 ELSE Deferred("WorkspaceError") /\ UNCHANGED i
    /\ UNCHANGED << goos, argc, runs, tempDir, acqPrior, goModPath, moduleName,
                    goVersion, deps, stdout, cmds, environment >>

\* the tool is started again on the same machine
Rerun ==
    /\ pc = "exited"
    /\ runs < MaxRuns
    /\ runs' = runs + 1
    /\ argc' \in 1..MaxArgs
    /\ pc' = "main"
    /\ tempDir' = NoDir
    /\ acqPrior' = "none"
    /\ err' = "nil"
    /\ goModPath' = 0
    /\ moduleName' = ""
    /\ goVersion' = ""
    /\ deps' = <<>>
    /\ stdout' = <<>>
    /\ exitCode' = Running
    /\ stages' = <<>>
    /\ fatal' = "none"
    /\ cmds' = <<>>
    /\ i' = 0
    /\ removeLog' = <<>>
    /\ UNCHANGED << goos, fs, environment >>

Next ==
    \/ Main
    \/ Acquire
    \/ Fetch
    \/ Locate
    \/ Parse
    \/ Report
    \/ Render
    \/ Cleanup
    \/ Rerun

Spec == Init /\ [][Next]_vars

\* ------------------------------------------------------------ single calls
\* main at the call of stage p of its first run, every earlier call having
\* succeeded; the inputs of the calls still to come are chosen by the
\* specifications below.
Order == << "acquire", "fetch", "locate", "parse", "report", "render", "release" >>

Before(p) ==
    SubSeq(Order, 1, (CHOOSE k \in 1..Len(Order) : Order[k] = p) - 1)

MainAt(p) ==
    /\ pc = p
    /\ goos \in GOOS
    /\ argc = 2
    /\ runs = 1
    /\ tempDir = (IF goos = "windows" THEN 0 ELSE 1)
    /\ fs = [d \in DirIds |-> IF d = tempDir THEN "cloned" ELSE "absent"]
    /\ acqPrior = "absent"
    /\ err = "nil"
    /\ goModPath = (IF p = "locate" THEN 0 ELSE 2)
    /\ moduleName = (IF p = "report" THEN "example.com/foo" ELSE "")
    /\ goVersion = (IF p = "report" THEN "1.21" ELSE "")
    /\ deps = <<>>
    /\ stdout = <<>>
    /\ exitCode = Running
    /\ stages = Before(p)
    /\ fatal = "none"
    /\ cmds = << "git" >>
    /\ i = 0
    /\ removeLog = <<>>

\* findGoMod applied to every tree
InitLocate ==
    /\ MainAt("locate")
    /\ repoTree \in Trees
    /\ goModFile = <<>>
    /\ goCommand = <<>>

SpecLocate == InitLocate /\ [][Locate]_vars

\* parseGoMod applied to every file
InitParse ==
    /\ MainAt("parse")
    /\ repoTree = <<>>
    /\ goModFile \in {<<f>> : f \in GoModFiles}
    /\ goCommand = <<>>

SpecParse == InitParse /\ [][Parse]_vars

\* getDependencies applied to every behaviour of the go command, followed
\* by printResults
InitReport ==
    /\ MainAt("report")
    /\ repoTree = <<>>
    /\ goModFile = <<>>
    /\ goCommand \in {<<g>> : g \in GoCommands}

NextReport ==
    \/ Report
    \/ Render

SpecReport == InitReport /\ [][NextReport]_vars

\* the end of a run from getDependencies on: printResults, main's return and
\* the deferred cleanupTempDir.  main is a sequential program that keeps
\* taking its steps until it exits.
NextRelease ==
    \/ Report
    \/ Render
    \/ Cleanup

SpecRelease == InitReport /\ [][NextRelease]_vars /\ WF_vars(NextRelease)

\* ------------------------------------------------------------ properties

\* C1: once createTempDir has succeeded, no run ends without an attempt to
\* remove the temporary directory.
C1_ReleaseOnEveryExit ==
    (pc = "exited" /\ tempDir # NoDir) => removeLog # <<>>

\* the records the listing's consumer is meant to keep: an update is present
\* and the import path, with forward slashes, does not start with '.' or '/'
\* and does not contain the temporary directory's path
UpdatableExternal(m) ==
    LET p == ToSlash(goos, m.Path)
    IN  /\ m.Update # "nil"
        /\ p[1] \notin {".", "/"}
        /\ ~Contains(p, ToSlash(goos, DirPath(goos, tempDir)))

\* C2: a successful getDependencies returns exactly the records of the stream
\* that have an update and an external import path, in stream order.
C2_ReportFilter ==
    (pc \in {"render", "cleanup"} /\ goCommand # <<>>)
        => deps = SelectSeq(goCommand[1].out, UpdatableExternal)

IsGoModFile(n) == n.name = "go.mod" /\ ~n.isDir /\ ~n.err

\* C3: a successful findGoMod returns the first file named go.mod in
\* traversal order.
C3_FirstMatchWins ==
    (pc # "locate" /\ repoTree # <<>> /\ err = "nil")
        => /\ goModPath \in 1..Len(repoTree)
           /\ IsGoModFile(repoTree[goModPath])
           /\ \A k \in 1..(goModPath - 1) : ~IsGoModFile(repoTree[k])

\* C4: the directory createTempDir returns did not exist before the call and
\* is empty after it.
C4_AcquireNewAndEmpty ==
    pc = "fetch" => (acqPrior = "absent" /\ fs[tempDir] = "empty")

HasDirective(data, d) == \E k \in 1..Len(data) : data[k].directive = d

ArgOf(data, d) == data[CHOOSE k \in 1..Len(data) : data[k].directive = d].arg

\* C5: for a readable, syntactically valid go.mod, parseGoMod fails with
\* MissingModuleDeclarationError exactly when there is no module statement,
\* and otherwise returns the module path and the go version, "unknown" when
\* there is no go statement.
C5_ParseResult ==
    ( /\ pc # "parse"
      /\ goModFile # <<>>
      /\ goModFile[1].readable
      /\ modfileParse(goModFile[1].data).err = "nil" )
        => LET data == goModFile[1].data
           IN  IF ~HasDirective(data, "module")
               THEN err = "MissingModuleDeclarationError"
               ELSE /\ err = "nil"
                    /\ moduleName = ArgOf(data, "module")
                    /\ goVersion = IF HasDirective(data, "go")
                                   THEN ArgOf(data, "go") ELSE "unknown"

C5_Witness ==
    /\ pc = "report"
    /\ goModFile # <<>>
    /\ goModFile[1].readable
    /\ HasDirective(goModFile[1].data, "module")
    /\ ~HasDirective(goModFile[1].data, "go")
    /\ \E k \in 1..Len(goModFile[1].data) : goModFile[1].data[k].eol = "\r\n"
    /\ goVersion = "unknown"

IsPrefix(s, t) == Len(s) <= Len(t) /\ s = SubSeq(t, 1, Len(s))

\* C6: the calls happen in the order acquire, fetch, locate, parse, report,
\* render; when one of them fails it is the last call of the run, nothing has
\* been or is printed, and the run has ended with a non-zero status.
C6_FailFast ==
    /\ IsPrefix(stages, Order)
    /\ fatal \in {"acquire", "fetch", "locate", "parse", "report", "render"}
         => /\ stages[Len(stages)] = fatal
            /\ pc = "exited"
            /\ exitCode \notin {0, Running}
            /\ stdout = <<>>

C6_Witness ==
    /\ pc = "exited"
    /\ fatal = "parse"
    /\ stages = << "acquire", "fetch", "locate", "parse" >>

ReleaseAttempts ==
    /\ Len(removeLog) <= (IF goos = "windows" THEN 3 ELSE 1)
    /\ \A k \in 1..(Len(removeLog) - 1) : ~removeLog[k]
    /\ (pc = "exited" /\ Len(stages) = Len(Order))
         => /\ removeLog # <<>>
            /\ goos # "windows" => Len(removeLog) = 1
            /\ IF removeLog[Len(removeLog)]
               THEN fatal = "none" /\ exitCode = 0
               ELSE /\ fatal = "release"
                    /\ err = "WorkspaceError"
                    /\ goos = "windows" => Len(removeLog) = 3

\* C7: cleanupTempDir makes at most 3 removal attempts on windows and exactly
\* one elsewhere, makes none after one that succeeded, fails exactly when
\* every attempt failed (all 3 on windows), and always returns.
C7_ReleaseRetries ==
    /\ []ReleaseAttempts
    /\ (pc = "cleanup") ~> (pc = "exited")

C7_Witness ==
    /\ pc = "exited"
    /\ goos = "windows"
    /\ removeLog = << FALSE, FALSE, FALSE >>
    /\ fatal = "release"

\* C8: a run without the repository URL prints the usage line and exits with
\* status 1; it creates no temporary directory and runs neither git nor go.
C8_UsageOnly ==
    (argc < 2 /\ pc # "main")
        => /\ pc = "exited"
           /\ stdout = << UsageLine >>
           /\ exitCode = 1
           /\ tempDir = NoDir
           /\ stages = <<>>
           /\ cmds = <<>>

C8_Witness ==
    /\ argc < 2
    /\ pc = "exited"
    /\ stdout = << UsageLine >>

\* C9: findGoMod fails with WalkError whenever the traversal hits an error,
\* and with ManifestNotFoundError only when the whole tree was traversed
\* without an error and holds no file named go.mod.
C9_WalkErrorReported ==
    (pc # "locate" /\ repoTree # <<>>)
        => /\ Walk(repoTree, 1, 0).err # "nil" => err = "WalkError"
           /\ err = "ManifestNotFoundError"
                => /\ Walk(repoTree, 1, 0).err = "nil"
                   /\ \A k \in 1..Len(repoTree) : ~IsGoModFile(repoTree[k])

\* C10: after the two identity lines a successful run prints either the
\* single up-to-date line, exactly when the stream has no updatable external
\* dependency, or the header followed by one line per such dependency.
C10_HeaderHasLines ==
    (pc = "cleanup" /\ goCommand # <<>>)
        => LET K == SelectSeq(goCommand[1].out, UpdatableExternal)
               rest == SubSeq(stdout, 3, Len(stdout))
           IN  IF K = <<>>
               THEN rest = << UpToDateLine >>
               ELSE rest = << HeaderLine >> \o [k \in 1..Len(K) |-> DepLine(K[k])]

====
